---- MODULE Spec2Model ----
(***************************************************************************)
(* TrackSite attendance device: the recognition debounce gate              *)
(* (src/main.py), the attendance state machine                             *)
(* (src/models/attendance_logger.py), the two stores                       *)
(* (src/config/database.py) and the synchronization engine                 *)
(* (src/models/sync_manager.py).                                           *)
(*                                                                         *)
(* The specifications share the variables:                                 *)
(*   SpecGate  the camera loop's _update_stability and the do_process      *)
(*             threads it starts (time unit: one second);                  *)
(*   Spec      process_attendance, the stores and the sync worker          *)
(*             (time unit: one minute of the working day), no remote       *)
(*             endpoint configured;                                        *)
(*   SpecHttp  the same with SYNC_API_URL set: the remote-API transport;   *)
(*   SpecStop  Spec with _shutdown;                                        *)
(*   SpecConn  the statements of MySQLDatabase.fetch_all / execute_query   *)
(*             as the threads run them on the shared connection.           *)
(***************************************************************************)
EXTENDS Integers, Sequences, FiniteSets, TLC

\* ------------------------------------------------------------------ bounds
Workers == {1, 2}
MaxGateClock == 10
MaxThreads == 2
MaxClock == 3
MaxTriggers == 3
MaxRows == 4
\* ids a buffer record can have
BufferIds == 1..MaxTriggers
\* the threads that use the shared MySQLDatabase object
Tasks == {"do_process", "sync_worker"}

\* ------------------------------------------------------- program constants
\* Python None / SQL NULL: worker ids, row ids and clock readings start at 1.
NULL == 0
\* Config.STABILITY_SECONDS and Config.COOLDOWN_SECONDS are read from the
\* environment (defaults 3.0 and 60.0); the model runs them at 2 and 5.
STABILITY_SECONDS == 2
COOLDOWN_SECONDS == 5
\* Config.MIN_WORK_INTERVAL_MINUTES is read from the environment (default 30);
\* the model runs it at 2.
MIN_WORK_INTERVAL_MINUTES == 2
MAX_RETRY_ATTEMPTS == 3

VARIABLES
    \* ---- debounce gate (AttendanceApp, main thread)
    gclock,        \* time.time(), seconds
    stability,     \* StabilityTracker: worker_id, first_seen, last_seen
    attendance_triggered_for,
    cooldowns,     \* worker -> expiry (NULL: no entry)
    running,       \* worker -> number of do_process threads not yet finished
    lastTrig,      \* history: worker -> time of the last trigger emitted
    prevTrig,      \* history: worker -> time of the trigger before the last
    trigCool,      \* history: worker -> the last trigger was emitted under an unexpired cooldown
    dwellTrig,     \* history: triggers emitted since the tracker last took its worker
    lastFin,       \* history: worker -> time the last do_process finished
    trigAfterFin,  \* history: worker -> lastFin as it was when the last trigger was emitted
    lastObs,       \* history: time of the last frame with a recognized worker
    lastEmpty,     \* history: time of the last frame without a recognized worker
    \* ---- attendance state machine, stores, sync
    clock,         \* datetime.now(), minutes of the day
    up,            \* environment: queries on the central store succeed
    is_connected,  \* MySQLDatabase.is_connected
    central,       \* attendance table: sequence of rows, attendance_id = index
    buffer,        \* attendance_buffer table: sequence of records, id = index
    proc,          \* worker -> the process_attendance call in progress
    sync,          \* the sync worker thread
    retry_count,   \* SyncManager.retry_count: buffer id -> attempts
    log,           \* history: worker -> outcomes of the finished calls
    everDown,      \* history: the central store was unreachable or disconnected at some time
    ntrig,         \* history: number of calls started
    \* ---- configuration, shutdown, remote-API sync, the connection handle
    sync_api_url,  \* Config.SYNC_API_URL is set and requests is importable
    is_running,    \* AttendanceApp.is_running
    attempts,      \* history: failed sync attempts that left the first buffer record pending (capped)
    everUp,        \* history: the central store was reachable at some time
    qpc,           \* task -> position inside a MySQLDatabase query method
    known,         \* FaceRecognizer.known_encodings: the encodings loaded, NULL: none
    audit,         \* audit_trail table: the entries appended by _log_audit
    disk           \* environment: statements on the local buffer database succeed

gateVars == <<gclock, stability, attendance_triggered_for, cooldowns, running,
              lastTrig, prevTrig, trigCool, dwellTrig, lastFin, trigAfterFin,
              lastObs, lastEmpty>>
attVars == <<clock, up, is_connected, central, buffer, proc, sync, retry_count,
             log, everDown, ntrig>>
extVars == <<sync_api_url, is_running, attempts, everUp, qpc, known, audit, disk>>
vars == <<gateVars, attVars, extVars>>

\* ===================================================================== gate
\* StabilityTracker.__init__ / StabilityTracker.reset
TrackerReset == [worker_id |-> NULL, first_seen |-> NULL, last_seen |-> NULL]

\* StabilityTracker.update
StabilityUpdate(st, worker_id, now) ==
    [worker_id  |-> worker_id,
     first_seen |-> IF worker_id # st.worker_id THEN now ELSE st.first_seen,
     last_seen  |-> now]

\* StabilityTracker.duration
Duration(st) ==
    IF st.first_seen # NULL /\ st.last_seen # NULL
    THEN st.last_seen - st.first_seen
    ELSE 0

\* StabilityTracker.is_stable
IsStable(st) == Duration(st) >= STABILITY_SECONDS

\* StabilityTracker.is_active
IsActive(st) == st.worker_id # NULL /\ st.last_seen # NULL

\* mutant: the cooldown entry is ignored
InCooldownIgnored(worker_id) == FALSE

\* _update_stability: the cooldown check
InCooldown(worker_id) ==
    cooldowns[worker_id] # NULL /\ gclock < cooldowns[worker_id]

\* _update_stability: the grace period, now - last_seen > 1.5
GraceExpired(st) == 2 * (gclock - st.last_seen) > 3

\* mutant: the already-triggered marker is not consulted
ShouldTriggerUnmarked(st, worker_id) == IsStable(st)

\* _update_stability: the trigger condition once the tracker is updated
ShouldTrigger(st, worker_id) ==
    IsStable(st) /\ attendance_triggered_for # worker_id

\* _process_attendance: starts a do_process thread for the worker
StartProcess(worker_id) ==
    /\ running[worker_id] < MaxThreads
    /\ running' = [running EXCEPT ![worker_id] = @ + 1]
    /\ prevTrig' = [prevTrig EXCEPT ![worker_id] = lastTrig[worker_id]]
    /\ lastTrig' = [lastTrig EXCEPT ![worker_id] = gclock]
    /\ trigCool' = [trigCool EXCEPT ![worker_id] =
                        cooldowns[worker_id] # NULL /\ gclock < cooldowns[worker_id]]
    /\ trigAfterFin' = [trigAfterFin EXCEPT ![worker_id] = lastFin[worker_id]]

\* _update_stability with a recognized primary face under cooldown: returns
CooldownFrame(worker_id) ==
    /\ InCooldown(worker_id)
    /\ lastObs' = gclock
    /\ UNCHANGED <<gclock, stability, attendance_triggered_for, cooldowns, running,
                   lastTrig, prevTrig, trigCool, dwellTrig, lastFin, trigAfterFin,
                   lastEmpty, attVars, extVars>>

\* _update_stability with a recognized primary face, not under cooldown
RecognizedFrame(worker_id) ==
    /\ ~InCooldown(worker_id)
    /\ LET st == StabilityUpdate(stability, worker_id, gclock)
           dw == IF worker_id # stability.worker_id THEN 0 ELSE dwellTrig
       IN  /\ stability' = st
           /\ IF ShouldTrigger(st, worker_id)
              THEN /\ attendance_triggered_for' = worker_id
                   /\ StartProcess(worker_id)
                   /\ dwellTrig' = dw + 1
              ELSE /\ dwellTrig' = dw
                   /\ UNCHANGED <<attendance_triggered_for, running,
                                  lastTrig, prevTrig, trigCool, trigAfterFin>>
    /\ lastObs' = gclock
    /\ UNCHANGED <<gclock, cooldowns, lastFin, lastEmpty, attVars, extVars>>

\* _update_stability with no recognized face
EmptyFrame ==
    /\ IF IsActive(stability) /\ stability.last_seen # NULL /\ GraceExpired(stability)
       THEN /\ stability' = TrackerReset
            /\ attendance_triggered_for' = NULL
            /\ dwellTrig' = 0
       ELSE UNCHANGED <<stability, attendance_triggered_for, dwellTrig>>
    /\ lastEmpty' = gclock
    /\ UNCHANGED <<gclock, cooldowns, running, lastTrig, prevTrig, trigCool,
                   lastFin, trigAfterFin, lastObs, attVars, extVars>>

\* do_process: process_attendance has returned; the cooldown is set
FinishProcess(worker_id) ==
    /\ running[worker_id] > 0
    /\ cooldowns' = [cooldowns EXCEPT ![worker_id] = gclock + COOLDOWN_SECONDS]
    /\ running' = [running EXCEPT ![worker_id] = @ - 1]
    /\ lastFin' = [lastFin EXCEPT ![worker_id] = gclock]
    /\ UNCHANGED <<gclock, stability, attendance_triggered_for,
                   lastTrig, prevTrig, trigCool, dwellTrig, trigAfterFin,
                   lastObs, lastEmpty, attVars, extVars>>

\* time.time() advances
GateTick ==
    /\ gclock < MaxGateClock
    /\ gclock' = gclock + 1
    /\ UNCHANGED <<stability, attendance_triggered_for, cooldowns, running,
                   lastTrig, prevTrig, trigCool, dwellTrig, lastFin, trigAfterFin,
                   lastObs, lastEmpty, attVars, extVars>>

InitGate ==
    /\ gclock = 1
    /\ stability = TrackerReset
    /\ attendance_triggered_for = NULL
    /\ cooldowns = [w \in Workers |-> NULL]
    /\ running = [w \in Workers |-> 0]
    /\ lastTrig = [w \in Workers |-> NULL]
    /\ prevTrig = [w \in Workers |-> NULL]
    /\ trigCool = [w \in Workers |-> FALSE]
    /\ dwellTrig = 0
    /\ lastFin = [w \in Workers |-> NULL]
    /\ trigAfterFin = [w \in Workers |-> NULL]
    /\ lastObs = NULL
    /\ lastEmpty = NULL

NextGate ==
    \/ \E w \in Workers : CooldownFrame(w)
    \/ \E w \in Workers : RecognizedFrame(w)
    \/ EmptyFrame
    \/ \E w \in Workers : FinishProcess(w)
    \/ GateTick

\* ================================================== stores and state machine
\* _get_today_record returning None
NoRecord == [attendance_id |-> NULL, time_in |-> NULL, time_out |-> NULL]

IdleCall == [pc |-> "idle", now |-> NULL, existing |-> NoRecord]

\* _sync_via_http: no response received
NoResponse == [kind |-> "none", synced_ids |-> {}]

\* complete: history, the central rows of the record's worker all had a
\* time_out when the existence check was made
\* bad: history, the existence check of the record failed
\* mode: the transport sync_all chose; result: the dictionary sync_all returns
SleepingSync == [pc |-> "sleep", pending |-> <<>>, i |-> 1, existing |-> NULL,
                 synced |-> 0, failed |-> 0, complete |-> FALSE, bad |-> FALSE,
                 resp |-> NoResponse, mode |-> "none",
                 result |-> [synced |-> 0, failed |-> 0, pending |-> 0]]

\* sync_all returns {synced, failed, pending} to _sync_worker
Return(mode, synced, failed, pending) ==
    [SleepingSync EXCEPT !.pc = "returned", !.mode = mode,
                         !.result = [synced |-> synced, failed |-> failed,
                                     pending |-> pending]]

\* a sqlite3 error raised by get_pending_records or mark_synced outside any
\* try leaves sync_all; _sync_worker catches and logs it
Escaped(mode) == [SleepingSync EXCEPT !.pc = "raised", !.mode = mode]

\* mutant: the remote API is preferred to a reconnect attempt
TransportRemoteFirst(connected, reachable, url) ==
    IF connected THEN "direct"
    ELSE IF url THEN "http"
    ELSE IF reachable THEN "direct" ELSE "none"

\* sync_all: the transport of the pass, given is_connected, whether connect()
\* succeeds, and whether SYNC_API_URL is configured
Transport(connected, reachable, url) ==
    IF connected \/ reachable THEN "direct"
    ELSE IF url THEN "http" ELSE "none"

\* _sync_worker: the loop tests is_running, then sleeps
EndPass == IF is_running THEN SleepingSync ELSE [SleepingSync EXCEPT !.pc = "stopped"]

\* round(seconds / 3600, 2) of a whole number of minutes, in hundredths of an hour
HoursWorked(minutes) == (10 * minutes + 3) \div 6

\* attendance row written by _record_timein
TimeinRow(worker_id, time_in) ==
    [worker_id |-> worker_id, time_in |-> time_in, time_out |-> NULL,
     status |-> "present", hours_worked |-> NULL]

\* SQLiteDatabase.insert_attendance
InsertAttendance(buf, worker_id, time_in) ==
    Append(buf, [worker_id |-> worker_id, time_in |-> time_in, time_out |-> NULL,
                 status |-> "present", hours_worked |-> 0,
                 sync_status |-> "pending"])

\* mutant: the time-out is set on a synced record too, which is queued again
UpdateTimeoutReopen(buf, worker_id, time_out, hours_worked) ==
    [b \in DOMAIN buf |->
        IF /\ buf[b].worker_id = worker_id
           /\ buf[b].time_out = NULL
        THEN [buf[b] EXCEPT !.time_out = time_out, !.hours_worked = hours_worked,
                            !.sync_status = "pending"]
        ELSE buf[b]]

\* SQLiteDatabase.update_timeout
UpdateTimeout(buf, worker_id, time_out, hours_worked) ==
    [b \in DOMAIN buf |->
        IF /\ buf[b].worker_id = worker_id
           /\ buf[b].time_out = NULL
           /\ buf[b].sync_status = "pending"
        THEN [buf[b] EXCEPT !.time_out = time_out, !.hours_worked = hours_worked]
        ELSE buf[b]]

\* mutant: the update of mark_synced is not committed
MarkSyncedUncommitted(buf, buffer_id) == buf

\* SQLiteDatabase.mark_synced
MarkSynced(buf, buffer_id) ==
    [b \in DOMAIN buf |->
        IF b = buffer_id THEN [buf[b] EXCEPT !.sync_status = "synced"] ELSE buf[b]]

\* SQLiteDatabase.get_pending_records: the pending records' ids, oldest first
\* (ORDER BY created_at ASC; records created in the same second come out in
\* id order)
RECURSIVE PendingIds(_, _)
PendingIds(buf, b) ==
    IF b > Len(buf) THEN <<>>
    ELSE IF buf[b].sync_status = "pending"
         THEN <<b>> \o PendingIds(buf, b + 1)
         ELSE PendingIds(buf, b + 1)

\* mutant: the pending rows are read newest first
GetPendingRecordsDesc(buf) ==
    LET ids == PendingIds(buf, 1)
        n == Len(ids)
    IN  [k \in 1..n |->
            [id |-> ids[n + 1 - k], worker_id |-> buf[ids[n + 1 - k]].worker_id,
             time_in |-> buf[ids[n + 1 - k]].time_in,
             time_out |-> buf[ids[n + 1 - k]].time_out,
             status |-> buf[ids[n + 1 - k]].status,
             hours_worked |-> buf[ids[n + 1 - k]].hours_worked]]

\* SQLiteDatabase.get_pending_records: the rows read, each with its id
GetPendingRecords(buf) ==
    LET ids == PendingIds(buf, 1)
    IN  [k \in 1..Len(ids) |->
            [id |-> ids[k], worker_id |-> buf[ids[k]].worker_id,
             time_in |-> buf[ids[k]].time_in, time_out |-> buf[ids[k]].time_out,
             status |-> buf[ids[k]].status,
             hours_worked |-> buf[ids[k]].hours_worked]]

\* SQLiteDatabase.get_today_attendance: the most recent buffer record of the worker
GetTodayAttendance(buf, worker_id) ==
    LET ids == {b \in DOMAIN buf : buf[b].worker_id = worker_id}
    IN  IF ids = {} THEN NoRecord
        ELSE LET b == CHOOSE x \in ids : \A y \in ids : y <= x
             IN  [attendance_id |-> b, time_in |-> buf[b].time_in,
                  time_out |-> buf[b].time_out]

\* the SELECT of _get_today_record / _sync_record_mysql: the non-archived rows
\* of the worker for today
CentralRows(worker_id) ==
    {a \in DOMAIN central : central[a].worker_id = worker_id}

\* MySQLDatabase.fetch_one as _get_today_record calls it (is_connected holds):
\* the first row of the result, None when the result is empty or the query failed
FetchToday(worker_id) ==
    IF up /\ CentralRows(worker_id) # {}
    THEN {[attendance_id |-> a, time_in |-> central[a].time_in,
           time_out |-> central[a].time_out] : a \in CentralRows(worker_id)}
    ELSE {NoRecord}

\* AttendanceLogger._get_today_record: the records the lookup may return
GetTodayRecord(worker_id) ==
    IF is_connected
    THEN FetchToday(worker_id)
    ELSE {GetTodayAttendance(buffer, worker_id)}

\* mutant: the interval test rejects an elapsed time equal to the minimum
TooSoonInclusive(existing, now) ==
    now - existing.time_in <= MIN_WORK_INTERVAL_MINUTES

\* process_attendance: the interval test on a record with time_in and no time_out
TooSoon(existing, now) == now - existing.time_in < MIN_WORK_INTERVAL_MINUTES

\* process_attendance: the branch taken for the record the lookup returned
Decide(existing, now) ==
    IF existing.attendance_id = NULL THEN "timein"
    ELSE IF existing.time_out = NULL
         THEN IF TooSoon(existing, now) THEN "too_soon" ELSE "timeout"
         ELSE "completed"

\* the outcome of a call that an exception escaped from: insert_attendance and
\* update_timeout are called outside any try, a sqlite3 error they raise leaves
\* process_attendance and ends the do_process thread
Raised == "raised"

\* process_attendance returns; offline: history, the central store had not been
\* reachable at any time up to the return
Finished(worker_id, action, now, existing) ==
    log' = [log EXCEPT ![worker_id] =
                Append(@, [action |-> action, now |-> now, existing |-> existing,
                           offline |-> ~everUp])]

\* history: one more failed sync attempt of the buffer records in ids, which
\* stay pending (a direct attempt always ends with the record marked synced,
\* so only remote-API attempts leave a record pending); observed for the
\* first buffer record
Attempted(ids) ==
    IF 1 \in ids /\ attempts < MAX_RETRY_ATTEMPTS
    THEN attempts + 1 ELSE attempts

\* history: the worker has central rows for today and each has a time_out
AllComplete(worker_id) ==
    /\ CentralRows(worker_id) # {}
    /\ \A a \in CentralRows(worker_id) : central[a].time_out # NULL

\* _record_timeout: UPDATE attendance SET time_out, hours_worked WHERE attendance_id = %s
CentralUpdateTimeout(rows, attendance_id, time_out, hours_worked) ==
    [a \in DOMAIN rows |->
        IF a = attendance_id
        THEN [rows[a] EXCEPT !.time_out = time_out, !.hours_worked = hours_worked]
        ELSE rows[a]]

\* _sync_record_mysql: UPDATE ... WHERE attendance_id = %s AND time_out IS NULL
SyncUpdateTimeout(rows, attendance_id, time_out, hours_worked) ==
    [a \in DOMAIN rows |->
        IF a = attendance_id /\ rows[a].time_out = NULL
        THEN [rows[a] EXCEPT !.time_out = time_out, !.hours_worked = hours_worked]
        ELSE rows[a]]

\* _sync_record_mysql: INSERT INTO attendance from the buffered fields
SyncInsertRow(record) ==
    [worker_id |-> record.worker_id, time_in |-> record.time_in,
     time_out |-> record.time_out, status |-> record.status,
     hours_worked |-> record.hours_worked]

\* mutant: an existing central row is overwritten with the buffered fields
SyncApplyOverwrite(rows, record, existing) ==
    IF existing # NULL
    THEN [a \in DOMAIN rows |->
             IF a = existing THEN SyncInsertRow(record) ELSE rows[a]]
    ELSE Append(rows, SyncInsertRow(record))

\* _sync_record_mysql: the central table after the write chosen for the record,
\* given the row the existence check returned (NULL: none) and a query that succeeds
SyncApply(rows, record, existing) ==
    IF existing # NULL
    THEN IF record.time_out # NULL
         THEN SyncUpdateTimeout(rows, existing, record.time_out, record.hours_worked)
         ELSE rows
    ELSE Append(rows, SyncInsertRow(record))

\* _sync_record_mysql: whether a write query is issued for the record
SyncWrites(record, existing) == existing = NULL \/ record.time_out # NULL

\* process_attendance up to the branch: the lookup and the decision
ProcessAttendance(worker_id) ==
    /\ is_running
    /\ proc[worker_id].pc = "idle"
    /\ ntrig < MaxTriggers
    /\ ntrig' = ntrig + 1
    /\ IF ~is_connected /\ ~disk
       THEN \* get_today_attendance raises, process_attendance catches it
            /\ Finished(worker_id, "error", clock, NoRecord)
            /\ UNCHANGED proc
       ELSE \E existing \in GetTodayRecord(worker_id) :
               LET action == Decide(existing, clock)
               IN  IF action \in {"timein", "timeout"}
                   THEN /\ proc' = [proc EXCEPT ![worker_id] =
                                       [pc |-> action, now |-> clock,
                                        existing |-> existing]]
                        /\ UNCHANGED log
                   ELSE /\ Finished(worker_id, action, clock, existing)
                        /\ UNCHANGED proc
    /\ UNCHANGED <<clock, up, is_connected, central, buffer, sync, retry_count,
                   everDown, gateVars, extVars>>

\* the reachability of the central store while _log_audit runs its two
\* queries: <<at the worker lookup, at the audit insert>>; after a failed
\* lookup no insert is made
AuditReach == {<<TRUE, TRUE>>, <<TRUE, FALSE>>, <<FALSE, FALSE>>}

\* _log_audit: fetch_one on workers (which reconnects when disconnected), return
\* when it gives no row, then execute_query INSERT INTO audit_trail; neither
\* raises: is_connected afterwards, and whether the entry was appended
LogAudit(connected, reach) ==
    LET conn == connected \/ reach[1]
    IN  IF ~(conn /\ reach[1])
        THEN [is_connected |-> conn, logged |-> FALSE]
        ELSE [is_connected |-> reach[2], logged |-> reach[2]]

\* the entry _log_audit appends
AuditEntry(worker_id, action_type, now) ==
    [worker_id |-> worker_id, action_type |-> action_type, at |-> now]

\* mutant: a failed audit append rolls the primary write back
CommittedWithAudit(before, after, logged) == IF logged THEN after ELSE before

\* the attendance table after the handler: the connection is opened with
\* autocommit, the primary write stays whatever _log_audit does
Committed(before, after, logged) == after

\* the handler's audit phase: the store is reachable or not while it runs
Audited(worker_id, action_type, now, connected, before, after) ==
    \E reach \in AuditReach :
        LET a == LogAudit(connected, reach)
        IN  /\ central' = Committed(before, after, a.logged)
            /\ is_connected' = a.is_connected
            /\ audit' = IF a.logged
                        THEN audit \cup {AuditEntry(worker_id, action_type, now)}
                        ELSE audit
            /\ up' = reach[2]
            /\ everDown' = (everDown \/ ~reach[2])
            /\ everUp' = (everUp \/ reach[1])

\* _record_timein
RecordTimein(worker_id) ==
    /\ proc[worker_id].pc = "timein"
    /\ LET now == proc[worker_id].now
       IN  /\ IF is_connected /\ up
              THEN /\ Audited(worker_id, "time_in", now, TRUE, central,
                              Append(central, TimeinRow(worker_id, now)))
                   /\ UNCHANGED buffer
              ELSE /\ buffer' = IF disk
                                THEN InsertAttendance(buffer, worker_id, now)
                                ELSE buffer
                   /\ is_connected' = FALSE
                   /\ UNCHANGED <<central, up, everDown, everUp, audit>>
           /\ Finished(worker_id,
                       IF (is_connected /\ up) \/ disk THEN "timein" ELSE Raised,
                       now, proc[worker_id].existing)
    /\ proc' = [proc EXCEPT ![worker_id] = IdleCall]
    /\ UNCHANGED <<clock, sync, retry_count, ntrig, gateVars,
                   sync_api_url, is_running, attempts, qpc, known, disk>>

\* _record_timeout
RecordTimeout(worker_id) ==
    /\ proc[worker_id].pc = "timeout"
    /\ LET now == proc[worker_id].now
           existing == proc[worker_id].existing
           hours_worked == HoursWorked(now - existing.time_in)
       IN  /\ IF is_connected
              THEN /\ Audited(worker_id, "time_out", now, up, central,
                              IF up
                              THEN CentralUpdateTimeout(
                                       central, existing.attendance_id,
                                       now, hours_worked)
                              ELSE central)
                   /\ UNCHANGED buffer
              ELSE /\ buffer' = IF disk
                                THEN UpdateTimeout(buffer, worker_id, now,
                                                   hours_worked)
                                ELSE buffer
                   /\ UNCHANGED <<central, is_connected, up, everDown, everUp,
                                  audit>>
           /\ Finished(worker_id,
                       IF is_connected \/ disk THEN "timeout" ELSE Raised,
                       now, existing)
    /\ proc' = [proc EXCEPT ![worker_id] = IdleCall]
    /\ UNCHANGED <<clock, sync, retry_count, ntrig, gateVars,
                   sync_api_url, is_running, attempts, qpc, known, disk>>

\* ---------------------------------------------------------------- sync worker
\* the face encodings enrolled in the central store (face_encodings joined
\* with workers)
Enrolled == 1

\* face_recognizer.load_encodings(project_id=Config.PROJECT_ID) as _sync_worker
\* calls it: FaceRecognizer.load_encodings(self) takes no project_id, the call
\* raises TypeError before the method runs, the caller's except passes, and
\* known_encodings stay as they were
LoadEncodings(encodings) == encodings

\* _sync_worker: the reconnect attempt before sync_all, with the reload of the
\* encodings when connect() succeeds
SyncReconnect ==
    /\ sync.pc = "sleep"
    /\ is_connected' = IF is_connected THEN TRUE ELSE up
    /\ known' = IF ~is_connected /\ up THEN LoadEncodings(known) ELSE known
    /\ sync' = [sync EXCEPT !.pc = "sync_all"]
    /\ UNCHANGED <<clock, up, central, buffer, proc, retry_count, log, everDown,
                   ntrig, gateVars,
                   sync_api_url, is_running, attempts, everUp, qpc, audit, disk>>

\* sync_all: the direct connection when connected or when connect() succeeds,
\* otherwise the remote API when SYNC_API_URL is configured, otherwise no sync
\* path; _sync_via_mysql / _sync_via_http read the pending records
SyncAll ==
    /\ sync.pc = "sync_all"
    /\ LET pending == GetPendingRecords(buffer)
           mode == Transport(is_connected, up, sync_api_url)
       IN  /\ is_connected' = IF is_connected THEN TRUE ELSE up
           /\ sync' = IF ~disk
                      THEN Escaped(mode)
                      ELSE IF mode = "none"
                      THEN Return(mode, 0, 0, Len(pending))
                      ELSE IF Len(pending) = 0
                           THEN Return(mode, 0, 0, 0)
                           ELSE [SleepingSync EXCEPT
                                    !.pc = IF mode = "direct" THEN "check" ELSE "http",
                                    !.mode = mode, !.pending = pending]
    /\ UNCHANGED <<clock, up, central, buffer, proc, retry_count, log, everDown,
                   ntrig, gateVars, extVars>>

\* _sync_via_mysql: the loop moves to the next record or ends
SyncNext(sy) ==
    IF sy.i >= Len(sy.pending)
    THEN Return("direct", sy.synced, sy.failed,
                Len(sy.pending) - sy.synced - sy.failed)
    ELSE [sy EXCEPT !.pc = "check", !.i = @ + 1, !.existing = NULL,
                    !.complete = FALSE, !.bad = FALSE]

\* _sync_via_mysql / _sync_record_mysql: the retry cap, then the existence check
\* (fetch_one reconnects when disconnected; a failed query reads as no row)
SyncCheck ==
    /\ sync.pc = "check"
    /\ LET record == sync.pending[sync.i]
       IN  IF retry_count[record.id] >= MAX_RETRY_ATTEMPTS
           THEN /\ sync' = SyncNext([sync EXCEPT !.failed = @ + 1])
                /\ UNCHANGED is_connected
           ELSE /\ is_connected' = IF is_connected THEN TRUE ELSE up
                /\ \E existing \in
                        (IF up /\ CentralRows(record.worker_id) # {}
                         THEN CentralRows(record.worker_id) ELSE {NULL}) :
                      sync' = [sync EXCEPT
                                  !.pc = "write", !.existing = existing,
                                  !.complete = AllComplete(record.worker_id),
                                  !.bad = ~up]
    /\ UNCHANGED <<clock, up, central, buffer, proc, retry_count, log, everDown,
                   ntrig, gateVars, extVars>>

\* history: the attempt to sync the record in hand fails: its existence check
\* failed, or its write is not executed
SyncFailed(record) ==
    \/ sync.bad
    \/ SyncWrites(record, sync.existing) /\ ~(is_connected /\ up)

\* _sync_record_mysql returns True on every path that raises nothing, and
\* fetch_one and execute_query catch the errors of the store themselves
SyncRecordMysql(record) == TRUE

\* _sync_via_mysql: the counter of a record whose attempt returned False
RetryCountFailed(rc, id) == [rc EXCEPT ![id] = @ + 1]

\* mutant: the counter of a synced record is increased instead of removed
RetryCountKept(rc, id) == [rc EXCEPT ![id] = @ + 1]

\* _sync_via_mysql: retry_count.pop(rkey, None) after mark_synced; a record
\* without an entry counts as 0 attempts
RetryCountPop(rc, id) == [rc EXCEPT ![id] = 0]

\* _sync_record_mysql: the write (execute_query returns None when disconnected
\* or on a failed query, and raises nothing), then mark_synced
SyncWrite ==
    /\ sync.pc = "write"
    /\ disk \/ Len(central) < MaxRows
    /\ LET record == sync.pending[sync.i]
       IN  /\ IF SyncWrites(record, sync.existing) /\ is_connected
              THEN IF up
                   THEN /\ central' = SyncApply(central, record, sync.existing)
                        /\ UNCHANGED is_connected
                   ELSE /\ is_connected' = FALSE
                        /\ UNCHANGED central
              ELSE UNCHANGED <<central, is_connected>>
           /\ IF ~SyncRecordMysql(record)
              THEN /\ retry_count' = RetryCountFailed(retry_count, record.id)
                   /\ sync' = SyncNext([sync EXCEPT !.failed = @ + 1])
                   /\ UNCHANGED buffer
              ELSE IF disk
              THEN /\ buffer' = MarkSynced(buffer, record.id)
                   /\ retry_count' = RetryCountPop(retry_count, record.id)
                   /\ sync' = SyncNext([sync EXCEPT !.synced = @ + 1])
              ELSE /\ sync' = Escaped("direct")
                   /\ UNCHANGED <<buffer, retry_count>>
    /\ UNCHANGED <<clock, up, proc, log, everDown, ntrig, gateVars, extVars>>

\* the remote endpoint applies the records it acknowledges to the central
\* store with the upsert of the direct transport
RECURSIVE ServerApply(_, _, _, _)
ServerApply(rows, payload, ids, k) ==
    IF k > Len(payload) THEN rows
    ELSE LET record == payload[k]
             ex == {a \in DOMAIN rows : rows[a].worker_id = record.worker_id}
             existing == IF ex = {} THEN NULL
                         ELSE CHOOSE a \in ex : \A y \in ex : a <= y
         IN  ServerApply(IF record.id \in ids
                         THEN SyncApply(rows, record, existing) ELSE rows,
                         payload, ids, k + 1)

\* the responses requests.post can give: an exception, a status other than
\* 200, success false, or success true with any list of synced_ids
Responses ==
    {[kind |-> k, synced_ids |-> {}] : k \in {"exception", "status", "rejected"}}
    \cup {[kind |-> "ok", synced_ids |-> ids] : ids \in SUBSET BufferIds}

\* _sync_via_http: the batch of all pending records is posted, a response arrives
SyncHttpPost ==
    /\ sync.pc = "http"
    /\ \E resp \in Responses :
          /\ sync' = [sync EXCEPT !.pc = "http_mark", !.resp = resp]
          /\ central' = IF resp.kind = "ok"
                        THEN ServerApply(central, sync.pending, resp.synced_ids, 1)
                        ELSE central
    /\ UNCHANGED <<clock, up, is_connected, buffer, proc, retry_count, log,
                   everDown, ntrig, gateVars, extVars>>

\* mutant: a successful response marks every pending record synced
MarkAllPending(buf, ids) ==
    [b \in DOMAIN buf |-> [buf[b] EXCEPT !.sync_status = "synced"]]

\* the buffer after mark_synced of each id in ids
RECURSIVE MarkAll(_, _)
MarkAll(buf, ids) ==
    IF ids = {} THEN buf
    ELSE LET b == CHOOSE x \in ids : TRUE
         IN  MarkAll(MarkSynced(buf, b), ids \ {b})

\* _sync_via_http: the response is processed, the listed ids are marked synced
SyncHttpMark ==
    /\ sync.pc = "http_mark"
    /\ LET sent == {sync.pending[k].id : k \in DOMAIN sync.pending}
       IN  /\ buffer' = IF sync.resp.kind = "ok" /\ disk
                        THEN MarkAll(buffer, sync.resp.synced_ids) ELSE buffer
           /\ attempts' = Attempted(sent \ sync.resp.synced_ids)
    /\ LET synced == IF sync.resp.kind = "ok" /\ disk
                     THEN Cardinality(sync.resp.synced_ids) ELSE 0
           failed == Len(sync.pending) - synced
       IN  sync' = Return("http", synced, failed,
                          Len(sync.pending) - synced - failed)
    /\ UNCHANGED <<clock, up, is_connected, central, proc, retry_count, log,
                   everDown, ntrig, gateVars,
                   sync_api_url, is_running, everUp, qpc, known, audit, disk>>

\* _sync_worker: sync_all has returned, the status label is set, the loop
\* tests is_running
SyncReturn ==
    /\ sync.pc \in {"returned", "raised"}
    /\ sync' = EndPass
    /\ UNCHANGED <<clock, up, is_connected, central, buffer, proc, retry_count,
                   log, everDown, ntrig, gateVars, extVars>>

\* ------------------------------------------------------------------- shutdown
\* AttendanceApp._shutdown: clears is_running, closes the central connection
Shutdown ==
    /\ is_running
    /\ is_running' = FALSE
    /\ is_connected' = FALSE
    /\ UNCHANGED <<clock, up, central, buffer, proc, sync, retry_count, log,
                   everDown, ntrig, gateVars,
                   sync_api_url, attempts, everUp, qpc, known, audit, disk>>

\* ---------------------------------------------------------------- environment
\* the central store becomes unreachable (queries fail)
Fail ==
    /\ up
    /\ up' = FALSE
    /\ everDown' = TRUE
    /\ UNCHANGED <<clock, is_connected, central, buffer, proc, sync, retry_count,
                   log, ntrig, gateVars, extVars>>

\* the central store becomes reachable again
Recover ==
    /\ ~up
    /\ up' = TRUE
    /\ everUp' = TRUE
    /\ UNCHANGED <<clock, is_connected, central, buffer, proc, sync, retry_count,
                   log, everDown, ntrig, gateVars,
                   sync_api_url, is_running, attempts, qpc, known, audit, disk>>

\* datetime.now() advances
Tick ==
    /\ clock < MaxClock
    /\ clock' = clock + 1
    /\ UNCHANGED <<up, is_connected, central, buffer, proc, sync, retry_count,
                   log, everDown, ntrig, gateVars, extVars>>

\* AttendanceApp._initialize: mysql_db.connect(), empty stores
InitAtt ==
    /\ clock = 1
    /\ up \in BOOLEAN
    /\ is_connected = up
    /\ central = <<>>
    /\ buffer = <<>>
    /\ proc = [w \in Workers |-> IdleCall]
    /\ sync = SleepingSync
    /\ retry_count = [b \in BufferIds |-> 0]
    /\ log = [w \in Workers |-> <<>>]
    /\ everDown = ~up
    /\ ntrig = 0
    /\ sync_api_url = FALSE
    /\ is_running = TRUE
    /\ attempts = 0
    /\ everUp = up
    /\ qpc = [t \in Tasks |-> "idle"]
    /\ known = NULL
    /\ audit = {}
    /\ disk = TRUE

Init == InitGate /\ InitAtt

\* the same with a remote endpoint configured (SYNC_API_URL set)
InitHttp ==
    /\ InitGate
    /\ clock = 1
    /\ up \in BOOLEAN
    /\ is_connected = up
    /\ central = <<>>
    /\ buffer = <<>>
    /\ proc = [w \in Workers |-> IdleCall]
    /\ sync = SleepingSync
    /\ retry_count = [b \in BufferIds |-> 0]
    /\ log = [w \in Workers |-> <<>>]
    /\ everDown = ~up
    /\ ntrig = 0
    /\ sync_api_url = TRUE
    /\ is_running = TRUE
    /\ attempts = 0
    /\ everUp = up
    /\ qpc = [t \in Tasks |-> "idle"]
    /\ known = NULL
    /\ audit = {}
    /\ disk = TRUE

NextAtt ==
    \/ \E w \in Workers : ProcessAttendance(w)
    \/ \E w \in Workers : RecordTimein(w)
    \/ \E w \in Workers : RecordTimeout(w)
    \/ SyncReconnect
    \/ SyncAll
    \/ SyncCheck
    \/ SyncWrite
    \/ SyncReturn
    \/ Fail
    \/ Recover
    \/ Tick

Spec == Init /\ [][NextAtt]_vars

\* the device with a remote endpoint configured
NextHttp ==
    \/ NextAtt
    \/ SyncHttpPost
    \/ SyncHttpMark

SpecHttp == InitHttp /\ [][NextHttp]_vars

\* the device with or without a remote endpoint configured
InitAny == Init \/ InitHttp

SpecAny == InitAny /\ [][NextHttp]_vars

\* the device until and after _shutdown
NextStop ==
    \/ NextAtt
    \/ Shutdown

SpecStop == Init /\ [][NextStop]_vars

\* the device with the sync worker thread scheduled: _sync_worker loops while
\* is_running, each of its steps is eventually taken
SpecLive ==
    /\ Init
    /\ [][NextAtt]_vars
    /\ WF_vars(SyncReconnect)
    /\ WF_vars(SyncAll)
    /\ WF_vars(SyncCheck)
    /\ WF_vars(SyncWrite)
    /\ WF_vars(SyncReturn)

\* the local buffer database becomes unusable (locked, disk full, file gone)
DiskFail ==
    /\ disk
    /\ disk' = FALSE
    /\ UNCHANGED <<gateVars, attVars, sync_api_url, is_running, attempts, everUp,
                   qpc, known, audit>>

\* the device with a local buffer database that fails at some time
NextDisk ==
    \/ NextAtt
    \/ DiskFail

SpecDisk == Init /\ [][NextDisk]_vars

SpecGate == Init /\ [][NextGate]_vars

\* ============================================ the shared connection handle
\* MySQLDatabase.fetch_all and MySQLDatabase.execute_query statement by
\* statement, as the do_process threads and the sync worker call them on the
\* one MySQLDatabase object; neither method takes a lock.
\* qpc[t]: "idle", or the statement the task is about to execute on its cursor.
connFrame == <<gateVars, clock, up, central, buffer, proc, sync, retry_count, log,
               everDown, ntrig, sync_api_url, is_running, attempts, everUp,
               known, audit, disk>>

\* fetch_all: connect() when not connected, then connection.cursor(dictionary=True)
FetchAllBegin(t) ==
    /\ qpc[t] = "idle"
    /\ is_connected' = IF is_connected THEN TRUE ELSE up
    /\ qpc' = [qpc EXCEPT ![t] = IF is_connected' THEN "fa_execute" ELSE "idle"]
    /\ UNCHANGED connFrame

\* fetch_all: cursor.execute; a MySQLError returns [] and leaves is_connected
FetchAllExecute(t) ==
    /\ qpc[t] = "fa_execute"
    /\ qpc' = [qpc EXCEPT ![t] = IF up THEN "fa_fetchall" ELSE "idle"]
    /\ UNCHANGED <<is_connected, connFrame>>

\* fetch_all: cursor.fetchall
FetchAllFetch(t) ==
    /\ qpc[t] = "fa_fetchall"
    /\ qpc' = [qpc EXCEPT ![t] = IF up THEN "fa_close" ELSE "idle"]
    /\ UNCHANGED <<is_connected, connFrame>>

\* fetch_all: cursor.close and return
FetchAllClose(t) ==
    /\ qpc[t] = "fa_close"
    /\ qpc' = [qpc EXCEPT ![t] = "idle"]
    /\ UNCHANGED <<is_connected, connFrame>>

\* execute_query: returns None when not connected, else connection.cursor()
ExecuteBegin(t) ==
    /\ qpc[t] = "idle"
    /\ qpc' = [qpc EXCEPT ![t] = IF is_connected THEN "eq_execute" ELSE "idle"]
    /\ UNCHANGED <<is_connected, connFrame>>

\* execute_query: cursor.execute; a MySQLError clears is_connected
ExecuteRun(t) ==
    /\ qpc[t] = "eq_execute"
    /\ IF up
       THEN /\ qpc' = [qpc EXCEPT ![t] = "eq_close"]
            /\ UNCHANGED is_connected
       ELSE /\ qpc' = [qpc EXCEPT ![t] = "idle"]
            /\ is_connected' = FALSE
    /\ UNCHANGED connFrame

\* execute_query: lastrowid, cursor.close and return
ExecuteClose(t) ==
    /\ qpc[t] = "eq_close"
    /\ qpc' = [qpc EXCEPT ![t] = "idle"]
    /\ UNCHANGED <<is_connected, connFrame>>

NextConn ==
    \/ \E t \in Tasks : FetchAllBegin(t)
    \/ \E t \in Tasks : FetchAllExecute(t)
    \/ \E t \in Tasks : FetchAllFetch(t)
    \/ \E t \in Tasks : FetchAllClose(t)
    \/ \E t \in Tasks : ExecuteBegin(t)
    \/ \E t \in Tasks : ExecuteRun(t)
    \/ \E t \in Tasks : ExecuteClose(t)
    \/ Fail
    \/ Recover

SpecConn == Init /\ [][NextConn]_vars

\* =================================================================== claims
\* ------------------------------------------------ debounce gate (SpecGate)

\* C7: the gate emits at most one trigger for a worker while the tracker
\* continuously holds that worker, and it never emits a trigger for a worker
\* whose cooldown entry has not yet expired.
C7_DebounceGate ==
    /\ dwellTrig <= 1
    /\ \A w \in Workers : ~trigCool[w]

\* C7 witness: the tracker still holds the worker it triggered for, the
\* worker's cooldown has expired, the worker has been observed again after the
\* expiry, and no second trigger was emitted.
C7_Witness ==
    \E w \in Workers :
        /\ stability.worker_id = w
        /\ dwellTrig = 1
        /\ lastTrig[w] # NULL
        /\ cooldowns[w] # NULL
        /\ stability.last_seen >= cooldowns[w]

C9_OneInFlight ==
    \A w \in Workers : running[w] <= 1

\* ------------------------------------- state machine, stores, sync (Spec)
\* the time_in / time_out pairs of the worker's records for today, in both stores
RecordsOf(worker_id) ==
    {[time_in |-> central[a].time_in, time_out |-> central[a].time_out] :
        a \in CentralRows(worker_id)}
    \cup
    {[time_in |-> buffer[b].time_in, time_out |-> buffer[b].time_out] :
        b \in {x \in DOMAIN buffer : buffer[x].worker_id = worker_id}}

\* this step is the start of a process_attendance call for the worker
CallStarts(worker_id) ==
    /\ proc[worker_id].pc = "idle"
    /\ ntrig' = ntrig + 1
    /\ \/ proc'[worker_id].pc # "idle"
       \/ Len(log'[worker_id]) = Len(log[worker_id]) + 1

\* this step ends a process_attendance call for the worker with the action
Returns(worker_id, action) ==
    /\ Len(log'[worker_id]) = Len(log[worker_id]) + 1
    /\ log'[worker_id][Len(log'[worker_id])].action = action

\* C1: the central store holds at most one non-archived attendance row per
\* (worker, date).
C1_CentralUnique ==
    \A w \in Workers : Cardinality(CentralRows(w)) <= 1

\* C2: for every trigger for which process_attendance returned 'timein' or
\* 'timeout', at every later moment the time-in / time-out it recorded is
\* carried by the central row of the worker or by a pending buffer record.
C2_NoEventLost ==
    \A w \in Workers : \A k \in DOMAIN log[w] :
        LET e == log[w][k]
        IN  /\ e.action = "timein" =>
                \/ \E a \in CentralRows(w) : central[a].time_in = e.now
                \/ \E b \in DOMAIN buffer :
                      /\ buffer[b].worker_id = w
                      /\ buffer[b].sync_status = "pending"
                      /\ buffer[b].time_in = e.now
            /\ e.action = "timeout" =>
                \/ \E a \in CentralRows(w) : central[a].time_out = e.now
                \/ \E b \in DOMAIN buffer :
                      /\ buffer[b].worker_id = w
                      /\ buffer[b].sync_status = "pending"
                      /\ buffer[b].time_out = e.now

\* C3: the outcome of process_attendance is decided by the record the lookup
\* of today's record gives: none -> 'timein'; time_in only and fewer than
\* MIN_WORK_INTERVAL_MINUTES elapsed -> 'too_soon'; time_in only and at least
\* that many (exactly equal included) -> 'timeout'; both -> 'completed'.  With
\* the store reachable throughout, the record looked up is the worker's central
\* row, the worker's outcomes are timein, then too_soon until the interval has
\* elapsed, then timeout exactly once, then completed, and the central row
\* holds time_in = the time of the timein and time_out = the time of the
\* timeout.
C3_OutcomeFunction ==
    \A w \in Workers :
        LET L == log[w]
            out == {j \in DOMAIN L : L[j].action = "timeout"}
        IN  /\ \A k \in DOMAIN L :
                  LET ex == L[k].existing
                  IN  L[k].action =
                        IF ex.attendance_id = NULL THEN "timein"
                        ELSE IF ex.time_out # NULL THEN "completed"
                        ELSE IF L[k].now - ex.time_in < MIN_WORK_INTERVAL_MINUTES
                             THEN "too_soon" ELSE "timeout"
            /\ ~everDown =>
                /\ L = <<>> => CentralRows(w) = {} \/ proc[w].pc = "timein"
                /\ L # <<>> =>
                    /\ L[1].action = "timein"
                    /\ Cardinality(out) <= 1
                    /\ \A k \in 2..Len(L) :
                          L[k].action =
                            IF \E j \in out : j < k THEN "completed"
                            ELSE IF L[k].now - L[1].now < MIN_WORK_INTERVAL_MINUTES
                                 THEN "too_soon" ELSE "timeout"
                    /\ \E a \in CentralRows(w) :
                          /\ CentralRows(w) = {a}
                          /\ central[a].time_in = L[1].now
                          /\ central[a].time_out =
                                IF out = {} THEN NULL
                                ELSE L[CHOOSE j \in out : TRUE].now
                          /\ \A k \in 2..Len(L) :
                                /\ L[k].existing.attendance_id = a
                                /\ L[k].existing.time_in = L[1].now

\* C3 witness: the store was reachable throughout and one worker's triggers
\* gave timein, too_soon, and timeout with exactly the minimum interval elapsed.
C3_Witness ==
    \E w \in Workers :
        /\ ~everDown
        /\ Len(log[w]) = 3
        /\ log[w][1].action = "timein"
        /\ log[w][2].action = "too_soon"
        /\ log[w][3].action = "timeout"
        /\ log[w][3].now - log[w][1].now = MIN_WORK_INTERVAL_MINUTES

\* C4: when the worker's record for today has only time_in set and
\* process_attendance is called less than MIN_WORK_INTERVAL_MINUTES after that
\* time_in, the call returns 'too_soon' and leaves both stores as they were.
C4_TooSoonLeavesRecord ==
    [][\A w \in Workers :
          ( /\ CallStarts(w)
            /\ RecordsOf(w) # {}
            /\ \A r \in RecordsOf(w) :
                  /\ r.time_out = NULL
                  /\ clock - r.time_in < MIN_WORK_INTERVAL_MINUTES )
          => /\ Returns(w, "too_soon")
             /\ central' = central
             /\ buffer' = buffer]_vars

\* C5: once the worker's record for today has both time_in and time_out set,
\* every further process_attendance call for that worker returns 'completed'
\* and changes nothing in either store.
C5_CompletedIsTerminal ==
    [][\A w \in Workers :
          ( /\ CallStarts(w)
            /\ RecordsOf(w) # {}
            /\ \A r \in RecordsOf(w) : r.time_out # NULL )
          => /\ Returns(w, "completed")
             /\ central' = central
             /\ buffer' = buffer]_vars

\* C6: applying a buffered record whose worker's central row already has
\* time_in and time_out (it had when the existence check was made, and has
\* when the write is made) adds no central row and changes no field of the
\* existing row.
C6_SyncIdempotent ==
    [][( /\ sync.pc = "write"
         /\ sync'.pc # "write" \/ sync'.i # sync.i
         /\ sync.complete
         /\ AllComplete(sync.pending[sync.i].worker_id) )
       => central' = central]_vars

\* C10: when the central write of a mutation fails (store not connected, or the
\* query errors), the equivalent mutation is applied to the local buffer with
\* sync_status pending, for the time-in insert and for the time-out update.
C10_FailedWriteBuffered ==
    [][\A w \in Workers :
          ( /\ proc[w].pc \in {"timein", "timeout"}
            /\ proc'[w].pc = "idle"
            /\ ~(is_connected /\ up) )
          => \E b \in DOMAIN buffer' :
                /\ buffer'[b].worker_id = w
                /\ buffer'[b].sync_status = "pending"
                /\ IF proc[w].pc = "timein"
                   THEN /\ b \notin DOMAIN buffer
                        /\ buffer'[b].time_in = proc[w].now
                        /\ buffer'[b].time_out = NULL
                   ELSE /\ buffer'[b].time_out = proc[w].now
                        /\ buffer'[b].hours_worked =
                              HoursWorked(proc[w].now - proc[w].existing.time_in)]_vars

\* this step is _record_timeout of the worker returning
TimeoutReturns(worker_id) ==
    /\ proc[worker_id].pc = "timeout"
    /\ proc'[worker_id].pc = "idle"

\* the store _record_timeout writes to holds no row its time-out write matches
NoRowToUpdate(worker_id) ==
    IF is_connected
    THEN proc[worker_id].existing.attendance_id \notin DOMAIN central
    ELSE \A b \in DOMAIN buffer :
            ~ ( /\ buffer[b].worker_id = worker_id
                /\ buffer[b].time_out = NULL
                /\ buffer[b].sync_status = "pending" )

\* C11: a time-out write that finds no matching time-in row to update in the
\* store it is applied to makes process_attendance return an error outcome,
\* never the success outcome 'timeout'.
C11_TimeoutNeedsRow ==
    [][\A w \in Workers :
          (TimeoutReturns(w) /\ NoRowToUpdate(w)) => ~Returns(w, "timeout")]_vars

\* C12: when the lookup of today's record fails (the connection is believed up
\* and the central query errors), process_attendance returns 'error' and
\* creates or changes no record in either store; the failed lookup is not
\* treated as 'no record today'.
C12_FailedLookupIsError ==
    [][\A w \in Workers :
          (CallStarts(w) /\ is_connected /\ ~up)
          => /\ Returns(w, "error")
             /\ central' = central
             /\ buffer' = buffer]_vars

\* C13: with the central store unreachable throughout, the outcomes of a
\* worker's triggers are those of the store reachable throughout (timein, then
\* too_soon until the interval has elapsed, then timeout once with the hours
\* since the time-in, then completed), whatever sync passes ran in between.
C13_OnlineOfflineSame ==
    ~everUp =>
        \A w \in Workers :
            LET L == log[w]
                out == {j \in DOMAIN L : L[j].action = "timeout"}
            IN  L # <<>> =>
                  /\ L[1].action = "timein"
                  /\ Cardinality(out) <= 1
                  /\ \A k \in 2..Len(L) :
                        /\ L[k].action =
                             IF \E j \in out : j < k THEN "completed"
                             ELSE IF L[k].now - L[1].now < MIN_WORK_INTERVAL_MINUTES
                                  THEN "too_soon" ELSE "timeout"
                        /\ L[k].action = "timeout" =>
                             L[k].existing.time_in = L[1].now

\* C14: when the central store is unreachable from before a worker's time-in
\* until after the time-out, the two events are held in a pending buffer
\* record, or (once synced) the worker's central row has exactly the time_in,
\* time_out, status and hours_worked that direct writes would have produced.
C14_OfflineThenSync ==
    \A w \in Workers : \A k1, k2 \in DOMAIN log[w] :
        LET L == log[w]
            t1 == L[k1].now
            t2 == L[k2].now
        IN  ( /\ k1 < k2
              /\ L[k1].action = "timein" /\ L[k1].offline
              /\ L[k2].action = "timeout" /\ L[k2].offline
              /\ L[k2].existing.time_in = t1 )
            => \/ \E b \in DOMAIN buffer :
                    /\ buffer[b].worker_id = w
                    /\ buffer[b].sync_status = "pending"
                    /\ buffer[b].time_in = t1
                    /\ buffer[b].time_out = t2
                    /\ buffer[b].hours_worked = HoursWorked(t2 - t1)
               \/ \E a \in CentralRows(w) :
                    /\ CentralRows(w) = {a}
                    /\ central[a].time_in = t1
                    /\ central[a].time_out = t2
                    /\ central[a].status = "present"
                    /\ central[a].hours_worked = HoursWorked(t2 - t1)

\* C15: in every stored attendance record with time_out set (central row or
\* buffer record), hours_worked equals time_out minus the time_in of that same
\* record, in hours rounded to two decimals.
C15_HoursMatch ==
    /\ \A a \in DOMAIN central :
          central[a].time_out # NULL =>
              central[a].hours_worked =
                  HoursWorked(central[a].time_out - central[a].time_in)
    /\ \A b \in DOMAIN buffer :
          buffer[b].time_out # NULL =>
              buffer[b].hours_worked =
                  HoursWorked(buffer[b].time_out - buffer[b].time_in)

\* C16: once the failed sync attempts of a buffer record have reached
\* MAX_RETRY_ATTEMPTS, no later sync pass submits the record again, by the
\* remote API or by the direct connection (observed for the first record).
C16_RetryCapStopsSubmission ==
    [][( /\ attempts >= MAX_RETRY_ATTEMPTS
         /\ \/ /\ sync.pc = "http" /\ sync'.pc = "http_mark"
               /\ \E k \in DOMAIN sync.pending : sync.pending[k].id = 1
            \/ /\ sync.pc = "check" /\ sync'.pc = "write"
               /\ sync.pending[sync.i].id = 1 )
       => FALSE]_vars

\* C17: every failed attempt to sync a buffer record (its existence check or
\* its write fails in direct mode) leaves the record pending and increases its
\* retry counter by one.
C17_FailedAttemptCounted ==
    [][( /\ sync.pc = "write"
         /\ sync' # sync
         /\ SyncFailed(sync.pending[sync.i]) )
       => LET id == sync.pending[sync.i].id
          IN  /\ buffer'[id].sync_status = "pending"
              /\ retry_count'[id] = retry_count[id] + 1]_vars

\* C18: after a remote-API pass a record that was pending is synced if and
\* only if its id is listed in synced_ids of a 200 response with success true;
\* every other record keeps its sync_status, and on any other response no
\* record's sync_status changes; nothing else of a record changes, and while
\* the request is in flight no sync_status changes.
C18_OnlyAcknowledgedSynced ==
    [][/\ (sync.pc = "http_mark" /\ sync'.pc # "http_mark") =>
            /\ DOMAIN buffer' = DOMAIN buffer
            /\ \A b \in DOMAIN buffer :
                  /\ buffer[b].sync_status = "pending" =>
                        ( buffer'[b].sync_status = "synced"
                          <=> ( /\ sync.resp.kind = "ok"
                                /\ b \in sync.resp.synced_ids ) )
                  /\ buffer[b].sync_status = "synced" =>
                        buffer'[b].sync_status = "synced"
                  /\ [buffer'[b] EXCEPT !.sync_status = "x"] =
                        [buffer[b] EXCEPT !.sync_status = "x"]
       /\ sync.pc = "http" =>
            \A b \in DOMAIN buffer :
                buffer'[b].sync_status = buffer[b].sync_status]_vars

\* C18 witness: the store was never reachable, a remote-API pass has ended,
\* the first record was submitted and not acknowledged and is still pending,
\* and another record has been marked synced.
C18_Witness ==
    /\ ~everUp
    /\ sync.pc = "sleep"
    /\ attempts >= 1
    /\ Len(buffer) >= 2
    /\ buffer[1].sync_status = "pending"
    /\ buffer[2].sync_status = "synced"

\* C19: the foreground attendance path and the background sync task are never
\* inside a query on the shared central connection at the same time.
C19_SerializedAccess ==
    ~ (qpc["do_process"] # "idle" /\ qpc["sync_worker"] # "idle")

\* C20: after _shutdown has cleared is_running the sync task starts no further
\* record of its batch, and the connection is not closed while the commit of a
\* record (central write plus mark-synced) is in flight.
C20_StopsBetweenRecords ==
    [][/\ (~is_running /\ sync.pc = "check" /\ sync.i > 1) =>
            (sync' = sync \/ sync'.pc = "stopped")
       /\ (is_running /\ ~is_running') => sync.pc # "write"]_vars

\* --------------------------------------------- debounce gate, continued (SpecGate)

\* C21: whenever the dwell of the tracked worker has reached STABILITY_SECONDS
\* on an observation made while the worker is not under cooldown, exactly one
\* trigger has been emitted for that worker since the tracker last reset to
\* that worker, also when the reset came from another worker observed in
\* between.
C21_StableDwellTriggers ==
    (stability.worker_id # NULL /\ IsStable(stability)) => dwellTrig = 1

\* this step is a frame without a recognized worker, processed while the
\* tracker holds a worker
EmptyFrameOnTracked ==
    /\ lastEmpty' = gclock
    /\ stability.worker_id # NULL
    /\ lastEmpty # gclock \/ stability'.worker_id = NULL

\* C22: apart from a change of the observed worker, the tracker and its
\* already-triggered marker are reset exactly when no recognized worker has
\* been observed for longer than the 1.5 s grace period: a frame without a
\* recognized worker resets them when the last observation (made under
\* cooldown or not) is more than 1.5 s old, and keeps the tracked worker, its
\* first_seen and the marker when it is at most 1.5 s old.
C22_ResetOnlyAfterGrace ==
    [][EmptyFrameOnTracked =>
          IF 2 * (gclock - lastObs) > 3
          THEN stability' = TrackerReset /\ attendance_triggered_for' = NULL
          ELSE /\ stability'.worker_id = stability.worker_id
               /\ stability'.first_seen = stability.first_seen
               /\ attendance_triggered_for' = attendance_triggered_for]_vars

\* the record the lookup of the call that starts in this step returned
LookedUp(worker_id) ==
    IF proc'[worker_id].pc # "idle"
    THEN proc'[worker_id].existing
    ELSE log'[worker_id][Len(log'[worker_id])].existing

\* the most recent buffer record of the worker among the pending ones
MostRecentPending(worker_id) ==
    LET ids == {b \in DOMAIN buffer : /\ buffer[b].worker_id = worker_id
                                      /\ buffer[b].sync_status = "pending"}
    IN  IF ids = {} THEN NoRecord
        ELSE LET b == CHOOSE x \in ids : \A y \in ids : y <= x
             IN  [attendance_id |-> b, time_in |-> buffer[b].time_in,
                  time_out |-> buffer[b].time_out]

\* C23: when the central store is not reachable (and the connection is known
\* to be down), the lookup of today's record returns the most recent buffer
\* record of the worker among those with sync_status pending, none when there
\* is no such record; a record already marked synced is never decided against.
C23_OfflineLookupPendingOnly ==
    [][\A w \in Workers :
          (CallStarts(w) /\ ~up /\ ~is_connected) =>
              LookedUp(w) = MostRecentPending(w)]_vars

\* this step completes the direct sync of the record in hand
DirectSyncStep == sync.pc = "write" /\ sync' # sync

\* C24: the direct sync of a pending buffer record does exactly one of: no
\* central row of the worker for today -> a central row is inserted with the
\* buffered fields; a central row exists with time_out unset and the buffered
\* record has a time_out -> that row's time_out and hours_worked are set to the
\* buffered values; otherwise -> the central store is left untouched.  In all
\* three cases the buffer record is then marked synced.
C24_DirectSyncCases ==
    [][DirectSyncStep =>
          LET record == sync.pending[sync.i]
              rows == CentralRows(record.worker_id)
              open == {a \in rows : central[a].time_out = NULL}
          IN  /\ IF rows = {}
                 THEN central' = Append(central, SyncInsertRow(record))
                 ELSE IF open # {} /\ record.time_out # NULL
                      THEN \E a \in open :
                              central' = CentralUpdateTimeout(
                                             central, a, record.time_out,
                                             record.hours_worked)
                      ELSE central' = central
              /\ buffer' = MarkSynced(buffer, record.id)]_vars

C26_AscendingOrder ==
    [][/\ \A j, k \in DOMAIN sync'.pending :
             j < k => sync'.pending[j].id < sync'.pending[k].id
       /\ DirectSyncStep =>
             \A b \in DOMAIN buffer :
                 b < sync.pending[sync.i].id => buffer[b].sync_status = "synced"]_vars

\* C26 witness: a direct pass over at least two records is at the write of
\* its second record.
C26_Witness ==
    /\ sync.pc = "write"
    /\ sync.i = 2
    /\ Len(sync.pending) >= 2

\* this step is a reconnect made by the sync worker before the pass or by
\* sync_all itself: the connection was down and the pass finds the store reachable
PassReconnects ==
    /\ sync.pc \in {"sleep", "sync_all"}
    /\ sync' # sync
    /\ ~is_connected
    /\ is_connected'

\* C27: whenever a sync pass finds the central store reachable after it had
\* been unreachable, whether the reconnect was made by the sync worker before
\* the pass or by sync_all itself, the recognizer's face encodings are
\* reloaded: they are then the encodings enrolled in the central store.
C27_ReconnectReloads ==
    [][PassReconnects => known' = Enrolled]_vars

\* this step is the worker's handler returning after its primary write went
\* to the central store and the store failed while _log_audit ran
AuditFails(worker_id) ==
    /\ proc[worker_id].pc \in {"timein", "timeout"}
    /\ proc'[worker_id].pc = "idle"
    /\ is_connected /\ up
    /\ ~up'

\* C28: a failure while appending the audit entry (the worker lookup or the
\* audit insert fails) leaves the attendance row written by the primary write
\* as written, appends no entry, and process_attendance still returns the
\* success outcome of that primary write.
C28_AuditFailureKeepsWrite ==
    [][\A w \in Workers :
          AuditFails(w) =>
              LET now == proc[w].now
                  existing == proc[w].existing
              IN  /\ audit' = audit
                  /\ Returns(w, proc[w].pc)
                  /\ IF proc[w].pc = "timein"
                     THEN /\ Len(central') = Len(central) + 1
                          /\ central'[Len(central')].worker_id = w
                          /\ central'[Len(central')].time_in = now
                          /\ \A a \in DOMAIN central : central'[a] = central[a]
                     ELSE /\ DOMAIN central' = DOMAIN central
                          /\ \A a \in DOMAIN central :
                                IF a = existing.attendance_id
                                THEN /\ central'[a].time_out = now
                                     /\ central'[a].time_in = central[a].time_in
                                ELSE central'[a] = central[a]]_vars

\* C28 witness: a worker's time-in was written to the central store and
\* returned 'timein', and the store failed before the audit entry was appended.
C28_Witness ==
    \E w \in Workers :
        /\ Len(log[w]) = 1
        /\ log[w][1].action = "timein"
        /\ buffer = <<>>
        /\ \E a \in CentralRows(w) : central[a].time_in = log[w][1].now
        /\ \A e \in audit : e.worker_id # w
        /\ ~up

\* C29: a local buffer record is never deleted, its sync_status only ever
\* changes from pending to synced and never back, and after the record is
\* created its time_in never changes.
C29_BufferRecordsMonotone ==
    [][\A b \in DOMAIN buffer :
          /\ b \in DOMAIN buffer'
          /\ buffer'[b].worker_id = buffer[b].worker_id
          /\ buffer'[b].time_in = buffer[b].time_in
          /\ buffer'[b].sync_status \in {"pending", "synced"}
          /\ buffer[b].sync_status = "synced" =>
                buffer'[b].sync_status = "synced"]_vars

\* C29 witness: a buffer record was given a time-out after its creation and
\* was then marked synced, while a later record is still pending.
C29_Witness ==
    \E b, c \in DOMAIN buffer :
        /\ b < c
        /\ buffer[b].sync_status = "synced"
        /\ buffer[b].time_out # NULL
        /\ buffer[c].sync_status = "pending"

\* C30: a sync pass, by either transport, changes no field of a buffer record
\* other than sync_status; in the central store it only inserts rows or sets
\* time_out / hours_worked of a row whose time_out is unset, and never changes
\* a row's time_in or a time_out that is already set.
C30_SyncFrame ==
    [][sync' # sync =>
          /\ DOMAIN buffer' = DOMAIN buffer
          /\ \A b \in DOMAIN buffer :
                [buffer'[b] EXCEPT !.sync_status = "synced"] =
                [buffer[b] EXCEPT !.sync_status = "synced"]
          /\ Len(central') >= Len(central)
          /\ \A a \in DOMAIN central :
                /\ central'[a].worker_id = central[a].worker_id
                /\ central'[a].time_in = central[a].time_in
                /\ central'[a].status = central[a].status
                /\ central[a].time_out # NULL => central'[a] = central[a]]_vars

\* C30 witness: a pass has returned with a record synced whose time-out the
\* pass set on a central row written earlier by a time-in.
C30_Witness ==
    /\ sync.pc = "returned"
    /\ sync.result.synced >= 1
    /\ \E b \in DOMAIN buffer : \E a \in CentralRows(buffer[b].worker_id) :
          /\ buffer[b].sync_status = "synced"
          /\ buffer[b].time_out # NULL
          /\ central[a].time_out = buffer[b].time_out
          /\ central[a].time_in # buffer[b].time_in

\* the typed outcomes of process_attendance
Outcomes == {"timein", "timeout", "too_soon", "completed", "error"}

\* C31: process_attendance and sync_all return a typed outcome for every store
\* failure, central or local buffer, on lookup or on write, and no exception
\* escapes to their caller (so that a processed trigger ends with its cooldown
\* set and a notification produced).
C31_TypedOutcomes ==
    /\ \A w \in Workers : \A k \in DOMAIN log[w] : log[w][k].action \in Outcomes
    /\ sync.pc # "raised"

\* C32: in direct sync mode a buffer record is marked synced only if, at that
\* moment, the central store holds a row for the record's worker and date,
\* and that row has a time_out whenever the buffer record has one; a failed
\* existence check or a failed insert / update never leads to the mark.
C32_SyncedOnlyIfCentralRow ==
    [][\A b \in DOMAIN buffer :
          ( /\ sync.pc = "write"
            /\ buffer[b].sync_status = "pending"
            /\ buffer'[b].sync_status = "synced" )
          => LET rows == {a \in DOMAIN central' :
                             central'[a].worker_id = buffer[b].worker_id}
             IN  /\ rows # {}
                 /\ buffer'[b].time_out # NULL =>
                       \A a \in rows : central'[a].time_out # NULL
                 /\ ~SyncFailed(sync.pending[sync.i])]_vars

\* C33: a time-out commit modifies only the record of the triggering worker:
\* the row it updates is identified in the store the lookup read from, so a
\* central row is never updated through a buffer record id (nor a buffer record
\* through a central id), also when is_connected changes between the lookup
\* and the write.
C33_TimeoutOwnRecordOnly ==
    [][\A w \in Workers :
          TimeoutReturns(w) =>
              /\ \A a \in DOMAIN central :
                    central'[a] # central[a] => central[a].worker_id = w
              /\ \A b \in DOMAIN buffer :
                    buffer'[b] # buffer[b] => buffer[b].worker_id = w]_vars

\* C34: if the central store's reachability changes between two triggers of
\* the same worker on the same day, the second trigger is decided against the
\* record created by the first: it is never treated as the first trigger of
\* the day and never creates a second time-in for that worker and date.
C34_OneTimeinPerDay ==
    \A w \in Workers :
        Cardinality({k \in DOMAIN log[w] : log[w][k].action = "timein"}) <= 1

\* C35: a time-out that the foreground path writes into a pending buffer
\* record while a sync pass is in progress for that record (after the pass
\* read it, before it marks it synced) is not lost: when the pass marks the
\* record synced, the central store holds that time-out for the worker.
C35_TimeoutDuringPassKept ==
    [][\A k \in DOMAIN sync.pending :
          LET b == sync.pending[k].id
          IN  ( /\ sync' # sync
                /\ sync.pending[k].time_out = NULL
                /\ buffer[b].time_out # NULL
                /\ buffer[b].sync_status = "pending"
                /\ buffer'[b].sync_status = "synced" )
              => \E a \in DOMAIN central' :
                    /\ central'[a].worker_id = buffer[b].worker_id
                    /\ central'[a].time_out = buffer[b].time_out]_vars

\* C36: an audit entry with action time_in or time_out exists for a worker
\* only if the central attendance write it describes succeeded: when the
\* entry is appended the central row of the worker carries that time-in or
\* time-out; a failed central insert or update produces no audit entry.
C36_AuditOnlyAfterWrite ==
    [][\A e \in audit' \ audit :
          \E a \in DOMAIN central' :
              /\ central'[a].worker_id = e.worker_id
              /\ IF e.action_type = "time_in"
                 THEN central'[a].time_in = e.at
                 ELSE central'[a].time_out = e.at]_vars

\* C37: if the central store stays reachable and the sync worker keeps
\* running, every pending buffer record eventually either becomes synced or
\* reaches MAX_RETRY_ATTEMPTS failed attempts; no record stays pending and
\* retriable forever.
C37_PendingEventuallySettled ==
    \A b \in BufferIds :
        (<>[](up /\ is_running)) =>
            <>[](b \in DOMAIN buffer =>
                    \/ buffer[b].sync_status = "synced"
                    \/ retry_count[b] >= MAX_RETRY_ATTEMPTS)

\* C37 witness: with the store reachable and the worker running, a pass has
\* returned and every one of at least two buffered records is synced.
C37_Witness ==
    /\ up /\ is_running
    /\ sync.pc = "returned"
    /\ Len(buffer) >= 2
    /\ \A b \in DOMAIN buffer : buffer[b].sync_status = "synced"

\* C38: in every result returned by sync_all the three counts synced, failed
\* and pending are non-negative and add up to the number of pending records
\* read at the start of the pass, in direct mode and in remote mode for every
\* response the endpoint may return.
C38_ResultCounts ==
    [][( sync'.pc = "returned" /\ sync.pc # "returned" )
       => LET read == IF sync.pc = "sync_all"
                      THEN Len(GetPendingRecords(buffer))
                      ELSE Len(sync.pending)
              result == sync'.result
          IN  /\ result.synced >= 0
              /\ result.failed >= 0
              /\ result.pending >= 0
              /\ result.synced + result.failed + result.pending = read]_vars

\* history: the step is the write phase of a direct attempt on record b
DirectAttemptOf(b) ==
    /\ sync.pc = "write"
    /\ sync' # sync
    /\ sync.pending[sync.i].id = b

====
